---- MODULE Spec2Model ----
(***************************************************************************)
(* Model of demonstrations/tutorial_adaptive_circuits.py: the adaptive     *)
(* construction of a VQE circuit for LiH.  The script is one sequential    *)
(* run; every top-level statement group is one action and pc is the        *)
(* position in the script.                                                 *)
(*                                                                         *)
(* The quantum library is an external collaborator.  Its calls are         *)
(* modelled as follows.                                                    *)
(*  - qchem.excitations returns two ordered lists of distinct descriptors; *)
(*    the model takes a prefix of the LiH lists, the empty one included.   *)
(*  - circuit_gradient returns one real per parameter; the values are      *)
(*    chosen freely.  A gradient is an integer in units of 1.0e-5: 0 is     *)
(*    below the threshold, 1 is exactly on it, 2 is above it; the filter   *)
(*    does not tell other reals from these.                                *)
(*  - the expectation value and the gradient-descent update are            *)
(*    deterministic functions of their arguments of which nothing else is  *)
(*    known; they are modelled as free terms: the value of a call is the   *)
(*    record of what it was called with.  Two energies or two parameter    *)
(*    vectors are equal in the model only if they are equal for every      *)
(*    deterministic simulator and optimizer.                               *)
(***************************************************************************)
EXTENDS Integers, Sequences, FiniteSets, TLC

\* ---------------------------------------------------------------- bounds
\* longest pool of double excitations returned by the enumeration
MaxDoubles == 1
\* longest pool of single excitations returned by the enumeration
MaxSingles == 2

\* ------------------------------------------------------ program constants
\* the literal 1.0e-5 of line 131, in units of 1.0e-5
ThresholdDoubles == 1
\* the literal 1.0e-5 of line 186, in units of 1.0e-5
ThresholdSingles == 1
\* range(20) of the three optimizer loops
StepsDoubles == 20
StepsFinal == 20
StepsSparse == 20
\* stepsize=0.5, in tenths
StepSizeDense == 5
StepSizeSparse == 5

VARIABLES
    pc,              \* position in the script
    singles,         \* pool of single excitations (line 80)
    doubles,         \* pool of double excitations (line 80)
    cost_fn,         \* the global cost_fn: which circuit, which observable
    params,          \* the global params, reassigned by every stage
    grads,           \* the global grads
    doubles_select,
    params_doubles,
    singles_select,
    opt,             \* the optimizer object: its step size
    n,               \* iterations of the current loop already run
    energy,          \* the global energy
    H_sparse,
    excitations,     \* the global excitations of the sparse section
    out,             \* last line printed by the dense and by the sparse loop
    grad_log,        \* arguments of every circuit_gradient call so far
    opt_calls        \* number of opt.step / opt.step_and_cost calls so far

vars == <<pc, singles, doubles, cost_fn, params, grads, doubles_select,
          params_doubles, singles_select, opt, n, energy, H_sparse,
          excitations, out, grad_log, opt_calls>>

\* --------------------------------------------------------------- helpers
Abs(x) == IF x < 0 THEN -x ELSE x

\* the Python float literal 0.0 and other reals that are known numbers
Lit(v) == [lit |-> v]

\* [0.0] * k
Zeros(k) == [i \in 1..k |-> Lit(0)]

\* the molecular Hamiltonian of line 78, opaque
H == [operator |-> "H_LiH"]

\* qml.utils.sparse_hamiltonian: a COO matrix that represents h
sparse_hamiltonian(h) == [format |-> "coo", matrix_of |-> h]

\* the operator an observable stands for, whatever its representation
OperatorOf(obs) == IF "matrix_of" \in DOMAIN obs THEN obs.matrix_of ELSE obs

\* qchem.excitations(2, 10), the first entries of each list
AllSingles == << <<0, 2>>, <<0, 4>>, <<0, 6>>, <<0, 8>> >>
AllDoubles == << <<0, 1, 2, 3>>, <<0, 1, 2, 5>>, <<0, 1, 2, 7>>, <<0, 1, 2, 9>> >>

\* gradient values around a threshold: below it, on it, above it, of
\* either sign
GradVals(threshold) == (0 - threshold - 1)..(threshold + 1)

\* ------------------------------------------------------------- circuits
\* one gate applied by a circuit
Gate(kind, theta, wires) == [gate |-> kind, theta |-> theta, wires |-> wires]

\* a branch of circuit_2 / circuit that applies nothing
NoGate == Gate("none", Lit(0), <<>>)

\* qml.BasisState(hf_state, wires)
HFState == Gate("BasisState", Lit(0), <<0, 1>>)

\* circuit_1: a double excitation for a 4-tuple, a single one otherwise
circuit_1(p, ex) ==
    <<HFState>> \o [i \in 1..Len(ex) |->
                      IF Len(ex[i]) = 4
                      THEN Gate("DoubleExcitation", p[i], ex[i])
                      ELSE Gate("SingleExcitation", p[i], ex[i])]

\* the if / elif loop shared by circuit_2 and circuit
ExcitationGates(p, ex) ==
    SelectSeq([i \in 1..Len(ex) |->
                 IF Len(ex[i]) = 4 THEN Gate("DoubleExcitation", p[i], ex[i])
                 ELSE IF Len(ex[i]) = 2 THEN Gate("SingleExcitation", p[i], ex[i])
                 ELSE NoGate],
              LAMBDA g : g # NoGate)

\* circuit_2: the selected gates with their fixed parameters, then the pool
circuit_2(p, ex, gates_select, params_select) ==
    <<HFState>> \o ExcitationGates(params_select, gates_select)
                \o ExcitationGates(p, ex)

\* the body of the qnode circuit of the sparse section, on a gate list
circuit(p, ex) == <<HFState>> \o ExcitationGates(p, ex)

\* the circuit a cost function runs, on its keyword arguments; the qnode
\* circuit takes none and reads the global excitations
RunCircuit(name, p, kw) ==
    IF name = "circuit_1" THEN circuit_1(p, kw.excitations)
    ELSE IF name = "circuit_2"
    THEN circuit_2(p, kw.excitations, kw.gates_select, kw.params_select)
    ELSE circuit(p, excitations)

\* keyword arguments of a call
Kw1(ex) == [excitations |-> ex]
Kw2(ex, gs, ps) == [excitations |-> ex, gates_select |-> gs, params_select |-> ps]
NoKw == [none |-> TRUE]

\* qml.ExpvalCost(circuit, H, dev)
ExpvalCost(name, obs) == [circuit |-> name, obs |-> obs]

\* expectation value of an observable in the state a circuit prepares
Expval(obs, ops) == [obs |-> obs, ops |-> ops]

\* cost_fn(params, **kw)
CostValue(cf, p, kw) == Expval(cf.obs, RunCircuit(cf.circuit, p, kw))

\* the k-th formal parameter of an objective function
Sym(i) == [sym |-> i]
SymVec(k) == [i \in 1..k |-> Sym(i)]

\* the function params -> energy that a cost function is on k parameters:
\* the operator measured and the circuit on formal parameters
Objective(cf, k, kw) ==
    [operator |-> OperatorOf(cf.obs), ops |-> RunCircuit(cf.circuit, SymVec(k), kw)]

\* two energies are the same number for every simulator: same operator,
\* same prepared state
SameExpectation(e1, e2) ==
    /\ OperatorOf(e1.obs) = OperatorOf(e2.obs)
    /\ e1.ops = e2.ops

\* ------------------------------------------------------------ optimizer
\* p is the result of some gradient-descent steps on objective obj with
\* step size eta
OnTrajectory(p, obj, eta) ==
    /\ Len(p) > 0
    /\ \A i \in 1..Len(p) :
          /\ "it" \in DOMAIN p[i]
          /\ p[i].obj = obj
          /\ p[i].eta = eta
          /\ p[i].at = i
          /\ p[i].x0 = p[1].x0

\* one update p - eta * grad(obj)(p) of GradientDescentOptimizer: a vector
\* of the same length whose i-th entry is the i-th coordinate of the point
\* reached from x0 after `it` updates
OptStep(obj, eta, p) ==
    LET base == IF OnTrajectory(p, obj, eta) THEN p[1].x0 ELSE p
        k    == IF OnTrajectory(p, obj, eta) THEN p[1].it ELSE 0
    IN  [i \in 1..Len(p) |->
           [x0 |-> base, it |-> k + 1, eta |-> eta, obj |-> obj, at |-> i]]

\* opt.step(cost_fn, p, **kw)
step(o, cf, p, kw) == OptStep(Objective(cf, Len(p), kw), o.stepsize, p)

\* a step_and_cost that evaluates the cost after the update
step_and_cost_after(o, cf, p, kw) ==
    [params |-> step(o, cf, p, kw), energy |-> CostValue(cf, step(o, cf, p, kw), kw)]

\* opt.step_and_cost(cost_fn, p, **kw): the new parameters and the cost at p
step_and_cost(o, cf, p, kw) ==
    [params |-> step(o, cf, p, kw), energy |-> CostValue(cf, p, kw)]

\* qml.GradientDescentOptimizer(stepsize)
GradientDescentOptimizer(s) == [stepsize |-> s]

\* ------------------------------------------------------------- selector
RECURSIVE SelectFrom(_, _, _, _)
\* [pool[i] for i in range(from, len(pool)) if abs(g[i]) > threshold]
SelectFrom(pool, g, threshold, i) ==
    IF i > Len(pool) THEN <<>>
    ELSE (IF Abs(g[i]) > threshold THEN <<pool[i]>> ELSE <<>>)
         \o SelectFrom(pool, g, threshold, i + 1)

RECURSIVE SelectFromGE(_, _, _, _)
\* a filter that also keeps a gradient on the threshold
SelectFromGE(pool, g, threshold, i) ==
    IF i > Len(pool) THEN <<>>
    ELSE (IF Abs(g[i]) >= threshold THEN <<pool[i]>> ELSE <<>>)
         \o SelectFromGE(pool, g, threshold, i + 1)

Select_ge(pool, g, threshold) == SelectFromGE(pool, g, threshold, 1)

RECURSIVE SelectFromRev(_, _, _, _)
\* a filter that puts each retained gate in front of the earlier ones
SelectFromRev(pool, g, threshold, i) ==
    IF i > Len(pool) THEN <<>>
    ELSE SelectFromRev(pool, g, threshold, i + 1)
         \o (IF Abs(g[i]) > threshold THEN <<pool[i]>> ELSE <<>>)

Select_reversed(pool, g, threshold) == SelectFromRev(pool, g, threshold, 1)

RECURSIVE SelectFromLT(_, _, _, _)
\* a filter with the comparison turned round
SelectFromLT(pool, g, threshold, i) ==
    IF i > Len(pool) THEN <<>>
    ELSE (IF Abs(g[i]) < threshold THEN <<pool[i]>> ELSE <<>>)
         \o SelectFromLT(pool, g, threshold, i + 1)

Select_lt(pool, g, threshold) == SelectFromLT(pool, g, threshold, 1)

\* the list comprehension of lines 131 and 186
Select(pool, g, threshold) == SelectFrom(pool, g, threshold, 1)

\* --------------------------------------------------------------- script
\* a name the script has not bound yet
Unset == [unset |-> TRUE]

\* pools the enumeration of line 80 may return
Pools(all, longest) == {SubSeq(all, 1, k) : k \in 0..longest}

\* what circuit_gradient may return for k parameters: one real each
Gradients(k, threshold) == [1..k -> GradVals(threshold)]

\* lines 66-118: Hamiltonian, pools, device, first cost function
Init ==
    /\ pc = "grad_doubles"
    /\ singles \in Pools(AllSingles, MaxSingles)
    /\ doubles \in Pools(AllDoubles, MaxDoubles)
    /\ cost_fn = ExpvalCost("circuit_1", H)
    /\ params = <<>>
    /\ grads = <<>>
    /\ doubles_select = <<>>
    /\ params_doubles = <<>>
    /\ singles_select = <<>>
    /\ opt = Unset
    /\ n = 0
    /\ energy = Unset
    /\ H_sparse = Unset
    /\ excitations = <<>>
    /\ out = [dense |-> Unset, sparse |-> Unset]
    /\ grad_log = <<>>
    /\ opt_calls = 0

\* lines 120-121: gradients of all double excitations at zero
GradDoubles ==
    /\ pc = "grad_doubles"
    /\ params' = Zeros(Len(doubles))
    /\ grad_log' = Append(grad_log,
                          [params |-> params', kw |-> Kw1(doubles),
                           opt_calls |-> opt_calls])
    /\ grads' \in Gradients(Len(params'), ThresholdDoubles)
    /\ pc' = "select_doubles"
    /\ UNCHANGED <<singles, doubles, cost_fn, doubles_select, params_doubles,
                   singles_select, opt, n, energy, H_sparse, excitations, out,
                   opt_calls>>

\* line 131
SelectDoubles ==
    /\ pc = "select_doubles"
    /\ doubles_select' = Select(doubles, grads, ThresholdDoubles)
    /\ pc' = "init_doubles"
    /\ UNCHANGED <<singles, doubles, cost_fn, params, grads, params_doubles,
                   singles_select, opt, n, energy, H_sparse, excitations, out,
                   grad_log, opt_calls>>

\* lines 140-142
InitDoubles ==
    /\ pc = "init_doubles"
    /\ opt' = GradientDescentOptimizer(StepSizeDense)
    /\ params_doubles' = Zeros(Len(doubles_select))
    /\ n' = 0
    /\ pc' = "opt_doubles"
    /\ UNCHANGED <<singles, doubles, cost_fn, params, grads, doubles_select,
                   singles_select, energy, H_sparse, excitations, out,
                   grad_log, opt_calls>>

\* lines 144-145: one iteration of the doubles loop
StepDoubles ==
    /\ pc = "opt_doubles"
    /\ n < StepsDoubles
    /\ params_doubles' = step(opt, cost_fn, params_doubles, Kw1(doubles_select))
    /\ n' = n + 1
    /\ opt_calls' = opt_calls + 1
    /\ UNCHANGED <<pc, singles, doubles, cost_fn, params, grads, doubles_select,
                   singles_select, opt, energy, H_sparse, excitations, out,
                   grad_log>>

\* a singles stage that skips the gradient call when the pool is empty
GradSingles_skip_empty ==
    /\ pc = "opt_doubles"
    /\ n >= StepsDoubles
    /\ cost_fn' = ExpvalCost("circuit_2", H)
    /\ params' = Zeros(Len(singles))
    /\ LET kw == Kw2(singles, doubles_select, params_doubles)
       IN  grad_log' = IF singles = <<>> THEN grad_log
                       ELSE Append(grad_log,
                                   [params |-> params', kw |-> kw,
                                    opt_calls |-> opt_calls])
    /\ grads' \in Gradients(Len(params'), ThresholdSingles)
    /\ pc' = "select_singles"
    /\ UNCHANGED <<singles, doubles, doubles_select, params_doubles,
                   singles_select, opt, n, energy, H_sparse, excitations, out,
                   opt_calls>>

\* a doubles loop that is left early when there is nothing to optimize
GradSingles_early_exit ==
    /\ pc = "opt_doubles"
    /\ (n >= StepsDoubles \/ params_doubles = <<>>)
    /\ cost_fn' = ExpvalCost("circuit_2", H)
    /\ params' = Zeros(Len(singles))
    /\ LET kw == Kw2(singles, doubles_select, params_doubles)
       IN  grad_log' = Append(grad_log,
                              [params |-> params', kw |-> kw,
                               opt_calls |-> opt_calls])
    /\ grads' \in Gradients(Len(params'), ThresholdSingles)
    /\ pc' = "select_singles"
    /\ UNCHANGED <<singles, doubles, doubles_select, params_doubles,
                   singles_select, opt, n, energy, H_sparse, excitations, out,
                   opt_calls>>

\* lines 173-178: the doubles loop is over; gradients of the singles with
\* the selected doubles fixed
GradSingles ==
    /\ pc = "opt_doubles"
    /\ n >= StepsDoubles
    /\ cost_fn' = ExpvalCost("circuit_2", H)
    /\ params' = Zeros(Len(singles))
    /\ LET kw == Kw2(singles, doubles_select, params_doubles)
       IN  grad_log' = Append(grad_log,
                              [params |-> params', kw |-> kw,
                               opt_calls |-> opt_calls])
    /\ grads' \in Gradients(Len(params'), ThresholdSingles)
    /\ pc' = "select_singles"
    /\ UNCHANGED <<singles, doubles, doubles_select, params_doubles,
                   singles_select, opt, n, energy, H_sparse, excitations, out,
                   opt_calls>>

\* line 186
SelectSingles ==
    /\ pc = "select_singles"
    /\ singles_select' = Select(singles, grads, ThresholdSingles)
    /\ pc' = "init_final"
    /\ UNCHANGED <<singles, doubles, cost_fn, params, grads, doubles_select,
                   params_doubles, opt, n, energy, H_sparse, excitations, out,
                   grad_log, opt_calls>>

\* a final stage whose parameters are sized by the doubles alone
InitFinal_doubles_only ==
    /\ pc = "init_final"
    /\ cost_fn' = ExpvalCost("circuit_1", H)
    /\ params' = Zeros(Len(doubles_select))
    /\ n' = 0
    /\ pc' = "opt_final"
    /\ UNCHANGED <<singles, doubles, grads, doubles_select, params_doubles,
                   singles_select, opt, energy, H_sparse, excitations, out,
                   grad_log, opt_calls>>

\* a final stage that starts from the optimized doubles parameters
InitFinal_warm_start ==
    /\ pc = "init_final"
    /\ cost_fn' = ExpvalCost("circuit_1", H)
    /\ params' = params_doubles \o Zeros(Len(singles_select))
    /\ n' = 0
    /\ pc' = "opt_final"
    /\ UNCHANGED <<singles, doubles, grads, doubles_select, params_doubles,
                   singles_select, opt, energy, H_sparse, excitations, out,
                   grad_log, opt_calls>>

\* lines 195-197
InitFinal ==
    /\ pc = "init_final"
    /\ cost_fn' = ExpvalCost("circuit_1", H)
    /\ params' = Zeros(Len(doubles_select \o singles_select))
    /\ n' = 0
    /\ pc' = "opt_final"
    /\ UNCHANGED <<singles, doubles, grads, doubles_select, params_doubles,
                   singles_select, opt, energy, H_sparse, excitations, out,
                   grad_log, opt_calls>>

\* lines 199-203: one iteration of the final dense loop
StepFinal ==
    /\ pc = "opt_final"
    /\ n < StepsFinal
    /\ LET r == step_and_cost(opt, cost_fn, params,
                              Kw1(doubles_select \o singles_select))
       IN  /\ params' = r.params
           /\ energy' = r.energy
           /\ out' = [out EXCEPT !.dense = [n |-> n, E |-> r.energy]]
    /\ n' = n + 1
    /\ opt_calls' = opt_calls + 1
    /\ UNCHANGED <<pc, singles, doubles, cost_fn, grads, doubles_select,
                   params_doubles, singles_select, opt, H_sparse, excitations,
                   grad_log>>

\* a sparse run that goes on from the parameters of the dense run
SparseSetup_keep_params ==
    /\ pc = "opt_final"
    /\ n >= StepsFinal
    /\ H_sparse' = sparse_hamiltonian(H)
    /\ opt' = GradientDescentOptimizer(StepSizeSparse)
    /\ excitations' = doubles_select \o singles_select
    /\ params' = params
    /\ n' = 0
    /\ pc' = "opt_sparse"
    /\ UNCHANGED <<singles, doubles, cost_fn, grads, doubles_select,
                   params_doubles, singles_select, energy, out, grad_log,
                   opt_calls>>

\* excitations = doubles_select; excitations += singles_select, which
\* extends the list doubles_select names
SparseSetup_extend_in_place ==
    /\ pc = "opt_final"
    /\ n >= StepsFinal
    /\ H_sparse' = sparse_hamiltonian(H)
    /\ opt' = GradientDescentOptimizer(StepSizeSparse)
    /\ excitations' = doubles_select \o singles_select
    /\ doubles_select' = excitations'
    /\ params' = Zeros(Len(excitations'))
    /\ n' = 0
    /\ pc' = "opt_sparse"
    /\ UNCHANGED <<singles, doubles, cost_fn, grads,
                   params_doubles, singles_select, energy, out, grad_log,
                   opt_calls>>

\* lines 219-234: the dense loop is over; set the sparse run up
SparseSetup ==
    /\ pc = "opt_final"
    /\ n >= StepsFinal
    /\ H_sparse' = sparse_hamiltonian(H)
    /\ opt' = GradientDescentOptimizer(StepSizeSparse)
    /\ excitations' = doubles_select \o singles_select
    /\ params' = Zeros(Len(excitations'))
    /\ n' = 0
    /\ pc' = "opt_sparse"
    /\ UNCHANGED <<singles, doubles, cost_fn, grads, doubles_select,
                   params_doubles, singles_select, energy, out, grad_log,
                   opt_calls>>

\* lines 237-252: cost, the qnode circuit measuring the sparse Hamiltonian
cost == [circuit |-> "circuit", obs |-> H_sparse]

\* lines 255-259: one iteration of the sparse loop
StepSparse ==
    /\ pc = "opt_sparse"
    /\ n < StepsSparse
    /\ LET r == step_and_cost(opt, cost, params, NoKw)
       IN  /\ params' = r.params
           /\ energy' = r.energy
           /\ out' = [out EXCEPT !.sparse = [n |-> n, E |-> r.energy]]
    /\ n' = n + 1
    /\ opt_calls' = opt_calls + 1
    /\ UNCHANGED <<pc, singles, doubles, cost_fn, grads, doubles_select,
                   params_doubles, singles_select, opt, H_sparse, excitations,
                   grad_log>>

\* the sparse loop is over: end of the script
Finish ==
    /\ pc = "opt_sparse"
    /\ n >= StepsSparse
    /\ pc' = "done"
    /\ UNCHANGED <<singles, doubles, cost_fn, params, grads, doubles_select,
                   params_doubles, singles_select, opt, n, energy, H_sparse,
                   excitations, out, grad_log, opt_calls>>

Next ==
    \/ GradDoubles
    \/ SelectDoubles
    \/ InitDoubles
    \/ StepDoubles
    \/ GradSingles
    \/ SelectSingles
    \/ InitFinal
    \/ StepFinal
    \/ SparseSetup
    \/ StepSparse
    \/ Finish

Spec == Init /\ [][Next]_vars

\* the script is one thread of blocking calls: a statement that can run, runs
FairSpec == Spec /\ WF_vars(Next)

\* ================================================================ claims
\* stages of the script
DoublesSelected == pc \notin {"grad_doubles", "select_doubles"}
DoublesOptimized ==
    \/ pc = "opt_doubles" /\ n >= StepsDoubles
    \/ pc \in {"select_singles", "init_final", "opt_final", "opt_sparse", "done"}
SinglesSelected == pc \in {"init_final", "opt_final", "opt_sparse", "done"}

\* x occurs in the sequence s
Occurs(x, s) == \E j \in 1..Len(s) : s[j] = x

\* pool[i] is retained exactly when |g[i]| exceeds the threshold
RetainedIffAbove(sel, pool, g, threshold) ==
    /\ Len(g) = Len(pool)
    /\ \A i \in 1..Len(pool) :
          /\ Occurs(pool[i], sel) <=> (g[i] > threshold \/ g[i] < 0 - threshold)
          /\ (g[i] = threshold \/ g[i] = 0 - threshold) => ~Occurs(pool[i], sel)

\* C1: right after each filter (doubles at line 131, singles at line 186),
\* a gate of the pool is in the selected list if and only if the magnitude
\* of its gradient is strictly greater than the threshold; a gate whose
\* gradient magnitude equals the threshold is left out.
C1_RetainIffAboveThreshold ==
    /\ pc = "init_doubles" =>
          RetainedIffAbove(doubles_select, doubles, grads, ThresholdDoubles)
    /\ pc = "init_final" =>
          RetainedIffAbove(singles_select, singles, grads, ThresholdSingles)

\* a singles filter that saw one gradient on the threshold and one above it,
\* after a doubles filter that retained nothing of its pool
C1_Witness ==
    /\ pc = "init_final"
    /\ Len(singles) = 2
    /\ grads[1] = 0 - ThresholdSingles
    /\ grads[2] = ThresholdSingles + 1
    /\ singles_select = <<singles[2]>>
    /\ Len(doubles) = 1
    /\ doubles_select = <<>>

\* s can be obtained from t by deleting entries
IsSubsequence(s, t) ==
    \E f \in [1..Len(s) -> 1..Len(t)] :
        /\ \A i \in 1..Len(s) : t[f[i]] = s[i]
        /\ \A i, j \in 1..Len(s) : i < j => f[i] < f[j]

\* C2: each selected list is a subsequence of its pool: the retained gates
\* keep the order they have in the pool and every one of them is in the pool.
C2_SelectIsSubsequence ==
    /\ DoublesSelected =>
          /\ IsSubsequence(doubles_select, doubles)
          /\ \A j \in 1..Len(doubles_select) : Occurs(doubles_select[j], doubles)
    /\ SinglesSelected =>
          /\ IsSubsequence(singles_select, singles)
          /\ \A j \in 1..Len(singles_select) : Occurs(singles_select[j], singles)

\* the singles filter retained two gates, the doubles filter one
C2_Witness ==
    /\ SinglesSelected
    /\ Len(doubles_select) = 1
    /\ Len(singles_select) = 2
    /\ singles_select[1] = singles[1]

\* thresholds the filter is compared on
Thresholds == 0..(ThresholdSingles + 2)

\* the set of entries of a sequence
Range(s) == {s[j] : j \in 1..Len(s)}

\* for the pool and the gradients at hand, a lower threshold retains a superset
Monotone(pool, g) ==
    \A t1, t2 \in Thresholds :
        t1 < t2 => Range(Select(pool, g, t2)) \subseteq Range(Select(pool, g, t1))

\* C3: on the same pool and the same gradients, the filter with a threshold
\* t1 returns a superset of what it returns with any threshold t2 > t1.
C3_FilterMonotone ==
    /\ pc = "select_doubles" => Monotone(doubles, grads)
    /\ pc = "select_singles" => Monotone(singles, grads)

\* gradients for which two thresholds give different, nested, nonempty results
C3_Witness ==
    /\ pc = "select_singles"
    /\ Len(singles) = 2
    /\ Select(singles, grads, 0) = singles
    /\ Select(singles, grads, 1) = <<singles[2]>>
    /\ Select(singles, grads, 2) = <<>>

C5_ParamsAlignedWithGates ==
    /\ \A k \in 1..Len(grad_log) :
          /\ Len(grad_log[k].params) = Len(grad_log[k].kw.excitations)
          /\ "gates_select" \in DOMAIN grad_log[k].kw =>
                Len(grad_log[k].kw.params_select) = Len(grad_log[k].kw.gates_select)
    /\ pc \notin {"grad_doubles", "select_doubles", "init_doubles"} =>
          Len(params_doubles) = Len(doubles_select)
    /\ pc = "opt_final" => Len(params) = Len(doubles_select \o singles_select)
    /\ pc \in {"opt_sparse", "done"} => Len(params) = Len(excitations)

\* the end of a run whose final circuit has doubles and singles
C5_Witness ==
    /\ pc = "done"
    /\ Len(doubles_select) = 1
    /\ Len(singles_select) = 2
    /\ Len(params) = 3
    /\ Len(doubles) # Len(singles)

\* the point reached by k successive updates on obj with step size eta from
\* a vector x0 of plain numbers
GDIter(obj, eta, x0, k) ==
    IF k = 0 THEN x0
    ELSE [i \in 1..Len(x0) |->
            [x0 |-> x0, it |-> k, eta |-> eta, obj |-> obj, at |-> i]]

\* the objective of the doubles stage and of the final dense stage
DoublesObjective ==
    Objective(ExpvalCost("circuit_1", H), Len(doubles_select), Kw1(doubles_select))
FinalGates == doubles_select \o singles_select
FinalObjective ==
    Objective(ExpvalCost("circuit_1", H), Len(FinalGates), Kw1(FinalGates))

\* the parameters after k steps of the final dense loop run from zero
FinalParams(k) == GDIter(FinalObjective, StepSizeDense, Zeros(Len(FinalGates)), k)

\* C6: the driver runs filter doubles (no fixed context, before any
\* optimizer call), optimize doubles, filter singles, final optimization,
\* in this order.  The singles gradient call is made after all the steps of
\* the doubles loop, with fixed context (doubles_select, params_doubles),
\* params_doubles being the result of these steps; the final loop runs on
\* doubles_select + singles_select from all-zero parameters.
C6_TwoStageOrder ==
    /\ Len(grad_log) >= 1 =>
          /\ grad_log[1].opt_calls = 0
          /\ grad_log[1].kw = Kw1(doubles)
    /\ pc \in {"select_doubles", "init_doubles"} => opt_calls = 0
    /\ pc = "opt_doubles" =>
          /\ opt_calls = n
          /\ Len(grad_log) = 1
          /\ params_doubles =
                GDIter(DoublesObjective, StepSizeDense, Zeros(Len(doubles_select)), n)
    /\ Len(grad_log) >= 2 =>
          /\ grad_log[2].opt_calls = StepsDoubles
          /\ grad_log[2].kw = Kw2(singles, doubles_select, params_doubles)
          /\ params_doubles =
                GDIter(DoublesObjective, StepSizeDense, Zeros(Len(doubles_select)),
                       StepsDoubles)
    /\ pc \in {"select_singles", "init_final"} => opt_calls = StepsDoubles
    /\ pc = "opt_final" =>
          /\ Len(grad_log) = 2
          /\ opt_calls = StepsDoubles + n
          /\ params = FinalParams(n)
          /\ n >= 1 => energy.ops = circuit_1(FinalParams(n - 1), FinalGates)

\* the final loop has run on doubles and singles, after a doubles loop that
\* moved the doubles parameters away from zero
C6_Witness ==
    /\ pc = "opt_final"
    /\ n = StepsFinal
    /\ Len(doubles_select) >= 1
    /\ Len(singles_select) >= 1
    /\ params_doubles # Zeros(Len(doubles_select))
    /\ SubSeq(FinalParams(0), 1, Len(doubles_select)) # params_doubles

\* the objective of the sparse loop and its parameters after k steps from zero
SparseObjective == Objective(cost, Len(excitations), NoKw)
SparseParams(k) == GDIter(SparseObjective, StepSizeSparse, Zeros(Len(excitations)), k)

\* C7: after every step of a loop that reports an energy (final dense loop,
\* sparse loop), the energy reported is the cost at the parameters the step
\* started from, while params holds the updated ones; the line printed
\* carries that energy.  After the last step the energy is the cost at the
\* parameters of step 19, not a cost evaluated at the parameters returned.
C7_EnergyAtPreUpdateParams ==
    /\ (pc = "opt_final" /\ n >= 1) =>
          /\ params = FinalParams(n)
          /\ energy = CostValue(ExpvalCost("circuit_1", H), FinalParams(n - 1),
                                Kw1(FinalGates))
          /\ out.dense = [n |-> n - 1, E |-> energy]
    /\ (pc \in {"opt_sparse", "done"} /\ n >= 1) =>
          /\ params = SparseParams(n)
          /\ energy = CostValue(cost, SparseParams(n - 1), NoKw)
          /\ out.sparse = [n |-> n - 1, E |-> energy]

\* the end of a run with gates to optimize: the last energy reported is not
\* the cost at the final parameters
C7_Witness ==
    /\ pc = "done"
    /\ Len(params) >= 1
    /\ energy = CostValue(cost, SparseParams(StepsSparse - 1), NoKw)
    /\ energy # CostValue(cost, params, NoKw)

\* the number of optimizer calls made at each position of the script
C8_Counts ==
    /\ pc \in {"grad_doubles", "select_doubles", "init_doubles"} => opt_calls = 0
    /\ pc = "opt_doubles" => (opt_calls = n /\ n <= StepsDoubles)
    /\ pc \in {"select_singles", "init_final"} => opt_calls = StepsDoubles
    /\ pc = "opt_final" => (opt_calls = StepsDoubles + n /\ n <= StepsFinal)
    /\ pc = "opt_sparse" =>
          (opt_calls = StepsDoubles + StepsFinal + n /\ n <= StepsSparse)
    /\ pc = "done" =>
          /\ opt_calls = StepsDoubles + StepsFinal + StepsSparse
          /\ \A i \in 1..Len(params) : params[i].it = StepsSparse
          /\ \A i \in 1..Len(params_doubles) : params_doubles[i].it = StepsDoubles
          /\ out.dense.n = StepsFinal - 1
          /\ out.sparse.n = StepsSparse - 1

\* C8: each optimizer loop makes exactly its fixed number of updates (20),
\* whatever the pools, the gradients, the selections, the energies and the
\* parameters are, and the script reaches its end, after 60 optimizer calls.
C8_FixedStepCountAndTermination == [](C8_Counts) /\ <>(pc = "done")

\* the end of a run in which every loop had gates to optimize
C8_Witness ==
    /\ pc = "done"
    /\ opt_calls = 60
    /\ Len(params_doubles) >= 1
    /\ Len(singles_select) >= 1

C10_FrozenResults ==
    [][/\ doubles' = doubles
       /\ singles' = singles
       /\ DoublesSelected => doubles_select' = doubles_select
       /\ DoublesOptimized => params_doubles' = params_doubles
       /\ SinglesSelected => singles_select' = singles_select]_vars

\* the end of a run: params was reassigned by the later stages, the frozen
\* results are still those of the doubles stage
C10_Witness ==
    /\ pc = "done"
    /\ Len(doubles_select) >= 1
    /\ Len(singles_select) >= 1
    /\ Len(params) # Len(params_doubles)
    /\ params_doubles = grad_log[2].kw.params_select
    /\ doubles_select = grad_log[2].kw.gates_select

====
